---- MODULE Spec2Model ----
(***************************************************************************)
(* A model of api.py of hubspot-booking-api: the duration labeler, the     *)
(* availability transformer and the two endpoints GET /availability and    *)
(* POST /book with their single outbound call to the upstream.             *)
(*                                                                         *)
(* Strings whose characters the code inspects (duration keys, labels,      *)
(* slot strings) are sequences of one-character strings.  Names that the   *)
(* code only looks up (dictionary field names, timezone names, exception   *)
(* class names) are TLA+ strings.                                          *)
(***************************************************************************)
EXTENDS Integers, Sequences, FiniteSets, TLC

VARIABLES
    pc,        \* position of the running operation: "call", "await", "done"
    op,        \* the operation that runs
    args,      \* its arguments
    ret,       \* its outcome: nothing yet, a returned value, a raised error, an HTTP answer
    env,       \* the process environment's HUBSPOT_API_KEY
    outbound,  \* the outbound calls the running request has made, in order
    reply      \* what the upstream answered to the running request's call

vars == <<pc, op, args, ret, env, outbound, reply>>

(***************************************************************************)
(* Bounds of the model.                                                     *)
(***************************************************************************)
MaxLen == 5

(***************************************************************************)
(* Python values and outcomes.                                              *)
(***************************************************************************)
PyNone == [t |-> "none"]

PyStr(s) == [t |-> "str", v |-> s]

Return(v) == [kind |-> "return", val |-> v]

Raise(e) == [kind |-> "raise", exc |-> e]

NoOutcome == [kind |-> "none"]

NoReply == [kind |-> "none"]

(***************************************************************************)
(* int(str): surrounding whitespace is stripped, one optional sign, then    *)
(* decimal digits with single underscores between digits.                   *)
(***************************************************************************)
Digits == <<"0", "1", "2", "3", "4", "5", "6", "7", "8", "9">>

IsDigit(c) == \E d \in 1..10 : Digits[d] = c

DigitVal(c) == (CHOOSE d \in 1..10 : Digits[d] = c) - 1

IsSpace(c) == c \in {" ", "\t", "\n"}

RECURSIVE LStrip(_)
LStrip(s) == IF s # <<>> /\ IsSpace(Head(s)) THEN LStrip(Tail(s)) ELSE s

RECURSIVE RStrip(_)
RStrip(s) ==
    IF s # <<>> /\ IsSpace(s[Len(s)]) THEN RStrip(SubSeq(s, 1, Len(s) - 1)) ELSE s

Strip(s) == LStrip(RStrip(s))

\* The digit body of an integer literal: non-empty, starts and ends with a
\* digit, every underscore stands between two digits.
IsIntBody(b) ==
    /\ b # <<>>
    /\ \A i \in 1..Len(b) :
          \/ IsDigit(b[i])
          \/ /\ b[i] = "_"
             /\ 1 < i /\ i < Len(b)
             /\ IsDigit(b[i - 1]) /\ IsDigit(b[i + 1])

RECURSIVE BodyVal(_, _)
BodyVal(b, acc) ==
    IF b = <<>> THEN acc
    ELSE IF Head(b) = "_" THEN BodyVal(Tail(b), acc)
    ELSE BodyVal(Tail(b), 10 * acc + DigitVal(Head(b)))

\* int(s) of a string s: the integer, or ValueError.
PyInt(s) ==
    LET u == Strip(s)
        signed == u # <<>> /\ Head(u) \in {"-", "+"}
        b == IF signed THEN Tail(u) ELSE u
    IN  IF IsIntBody(b)
        THEN Return(IF signed /\ Head(u) = "-" THEN 0 - BodyVal(b, 0) ELSE BodyVal(b, 0))
        ELSE Raise("ValueError")

\* int(x) of a Python value: a string is parsed, None is a TypeError.
PyIntOf(x) == IF x.t = "str" THEN PyInt(x.v) ELSE Raise("TypeError")

\* str(n) of an integer.
RECURSIVE NatStr(_)
NatStr(n) == IF n < 10 THEN <<Digits[n + 1]>> ELSE NatStr(n \div 10) \o <<Digits[(n % 10) + 1]>>

IntStr(n) == IF n < 0 THEN <<"-">> \o NatStr(0 - n) ELSE NatStr(n)

(***************************************************************************)
(* convert_duration_ms_to_label.                                            *)
(***************************************************************************)
UnknownDuration == <<"U", "n", "k", "n", "o", "w", "n", "D", "u", "r", "a", "t", "i", "o", "n">>

InvalidDurationFormat ==
    <<"I", "n", "v", "a", "l", "i", "d", "D", "u", "r", "a", "t", "i", "o", "n",
      "F", "o", "r", "m", "a", "t">>

MinSuffix == <<"m", "i", "n">>

MsPerMinute == 60000

\* The try block: int(), the negative check raising ValueError, the f-string.
LabelBody(duration_ms_str) ==
    LET parsed == PyIntOf(duration_ms_str)
    IN  IF parsed.kind = "raise" THEN parsed
        ELSE IF parsed.val < 0 THEN Raise("ValueError")
        ELSE Return(IntStr(parsed.val \div MsPerMinute) \o MinSuffix)

\* The except clauses: ValueError first, then TypeError.
convert_duration_ms_to_label(duration_ms_str) ==
    LET r == LabelBody(duration_ms_str)
    IN  IF r.kind = "return" THEN r
        ELSE IF r.exc = "ValueError" THEN Return(UnknownDuration)
        ELSE IF r.exc = "TypeError" THEN Return(InvalidDurationFormat)
        ELSE r

(***************************************************************************)
(* The labeler applied to every short string over LabelChars, and to None.  *)
(***************************************************************************)
LabelChars == {"0", "6", "-", " ", "_", "a"}

InitLabel ==
    /\ pc = "call"
    /\ op = "convert_duration_ms_to_label"
    /\ \/ \E k \in 0..MaxLen : \E s \in [1..k -> LabelChars] :
             args = [duration_ms_str |-> PyStr(s)]
       \/ args = [duration_ms_str |-> PyNone]
    /\ ret = NoOutcome
    /\ env = PyNone
    /\ outbound = <<>>
    /\ reply = NoReply

CallLabel ==
    /\ pc = "call"
    /\ op = "convert_duration_ms_to_label"
    /\ ret' = convert_duration_ms_to_label(args.duration_ms_str)
    /\ pc' = "done"
    /\ UNCHANGED <<op, args, env, outbound, reply>>

NextLabel == CallLabel

SpecLabel == InitLabel /\ [][NextLabel]_vars

(***************************************************************************)
(* JSON values as Python holds them.  A number is (1000 * sec + ms) * 10^e  *)
(* milliseconds, so that instants beyond 32 bits stay exact.  A dict is the *)
(* sequence of its <<key, value>> items in insertion order.                 *)
(***************************************************************************)
PyNum(sec, ms, e) == [t |-> "num", sec |-> sec, ms |-> ms, e |-> e]

PyList(items) == [t |-> "list", v |-> items]

PyDict(items) == [t |-> "dict", v |-> items]

IsDict(x) == x.t = "dict"

HasKey(d, k) == \E i \in 1..Len(d.v) : d.v[i][1] = k

\* d.get(k, default) of a dict d.
DictGet(d, k, default) ==
    IF HasKey(d, k) THEN d.v[CHOOSE i \in 1..Len(d.v) : d.v[i][1] = k][2] ELSE default

\* x.get(k, default) of any value x: only a dict has the method.
PyGet(x, k, default) ==
    IF IsDict(x) THEN Return(DictGet(x, k, default)) ELSE Raise("AttributeError")

\* d[k] = v of the result dict: an existing key keeps its place and gets the
\* new value, a new key goes last.
DictSet(items, k, v) ==
    IF \E i \in 1..Len(items) : items[i][1] = k
    THEN [i \in 1..Len(items) |-> IF items[i][1] = k THEN <<k, v>> ELSE items[i]]
    ELSE Append(items, <<k, v>>)

\* What a for loop over x visits: the items of a list, the keys of a dict,
\* the characters of a string; None and a number are not iterable.
PyIter(x) ==
    CASE x.t = "list" -> Return(x.v)
      [] x.t = "dict" -> Return([i \in 1..Len(x.v) |-> PyStr(x.v[i][1])])
      [] x.t = "str" -> Return([i \in 1..Len(x.v) |-> PyStr(<<x.v[i]>>)])
      [] OTHER -> Raise("TypeError")

(***************************************************************************)
(* pytz.timezone, datetime.fromtimestamp, astimezone and strftime.          *)
(***************************************************************************)
KnownTimezones == {"UTC", "America/Mexico_City", "Europe/London"}

\* pytz.timezone(name): the zone, or UnknownTimeZoneError (a KeyError).
PytzTimezone(name) ==
    IF name \in KnownTimezones THEN Return(name) ELSE Raise("UnknownTimeZoneError")

BstStart2025 == 1743296400

BstEnd2025 == 1761440400

\* The zone's offset from UTC, in seconds, at a UTC instant of the year 2025.
UtcOffset(zone, sec) ==
    CASE zone = "UTC" -> 0
      [] zone = "America/Mexico_City" -> 0 - 21600
      [] zone = "Europe/London" ->
            IF BstStart2025 <= sec /\ sec < BstEnd2025 THEN 3600 ELSE 0

\* An instant of sec * 10^e seconds (sec >= 1) lies beyond the year 9999 from
\* e = 12 on (the last second of 9999 is 253402300799), and beyond a 64-bit
\* time_t from e = 19 on.
YearRangeExp == 12

TimeTExp == 19

\* datetime.fromtimestamp(start_millis / 1000.0, tz=pytz.utc): the UTC second,
\* or ValueError (year out of range), or OverflowError (beyond time_t).
FromTimestamp(n) ==
    IF n.e >= TimeTExp THEN Raise("OverflowError")
    ELSE IF n.e >= YearRangeExp THEN Raise("ValueError")
    ELSE Return(n.sec)

WeekdayNames ==
    << <<"M", "o", "n", "d", "a", "y">>,
       <<"T", "u", "e", "s", "d", "a", "y">>,
       <<"W", "e", "d", "n", "e", "s", "d", "a", "y">>,
       <<"T", "h", "u", "r", "s", "d", "a", "y">>,
       <<"F", "r", "i", "d", "a", "y">>,
       <<"S", "a", "t", "u", "r", "d", "a", "y">>,
       <<"S", "u", "n", "d", "a", "y">> >>

\* The civil date of a day number counted from 1970-01-01.
CivilFromDays(days) ==
    LET z == days + 719468
        era == z \div 146097
        doe == z - era * 146097
        yoe == (doe - doe \div 1460 + doe \div 36524 - doe \div 146096) \div 365
        doy == doe - (365 * yoe + yoe \div 4 - yoe \div 100)
        mp == (5 * doy + 2) \div 153
        d == doy - (153 * mp + 2) \div 5 + 1
        m == IF mp < 10 THEN mp + 3 ELSE mp - 9
    IN  [year |-> yoe + era * 400 + (IF m <= 2 THEN 1 ELSE 0), month |-> m, day |-> d]

\* utc_dt.astimezone(zone): the fields of the local date-time.
LocalFields(zone, sec) ==
    LET loc == sec + UtcOffset(zone, sec)
        days == loc \div 86400
        rest == loc % 86400
        c == CivilFromDays(days)
    IN  [year |-> c.year, month |-> c.month, day |-> c.day,
         hour |-> rest \div 3600, minute |-> (rest % 3600) \div 60,
         weekday |-> (days + 3) % 7]

Pad2(n) == IF n < 10 THEN <<"0">> \o NatStr(n) ELSE NatStr(n)

\* local_dt.strftime("%A %Y-%m-%d %H:%M")
Strftime(f) ==
    WeekdayNames[f.weekday + 1] \o <<" ">> \o NatStr(f.year) \o <<"-">> \o Pad2(f.month)
        \o <<"-">> \o Pad2(f.day) \o <<" ">> \o Pad2(f.hour) \o <<":">> \o Pad2(f.minute)

(***************************************************************************)
(* process_hubspot_availability.                                            *)
(***************************************************************************)
\* The guards of one slot: TRUE when the slot goes on to the try block.
SlotIsNumeric(slot) ==
    /\ IsDict(slot)
    /\ DictGet(slot, "startMillisUtc", PyNone).t = "num"

\* The try block of one slot: the formatted local time, or the error raised.
SlotTry(slot, target_tz_obj) ==
    LET utc_dt == FromTimestamp(DictGet(slot, "startMillisUtc", PyNone))
    IN  IF utc_dt.kind = "raise" THEN utc_dt
        ELSE Return(Strftime(LocalFields(target_tz_obj, utc_dt.val)))

\* The except clause of the slot's try block.
SlotCaught(exc) == exc \in {"ValueError", "TypeError"}

\* The inner loop: the formatted slots of one duration entry, or the error
\* that leaves the loop.
RECURSIVE SlotLoop(_, _, _)
SlotLoop(slots, target_tz_obj, available_slots_formatted) ==
    IF slots = <<>> THEN Return(available_slots_formatted)
    ELSE IF ~SlotIsNumeric(Head(slots))
    THEN SlotLoop(Tail(slots), target_tz_obj, available_slots_formatted)
    ELSE LET r == SlotTry(Head(slots), target_tz_obj)
         IN  IF r.kind = "return"
             THEN SlotLoop(Tail(slots), target_tz_obj, Append(available_slots_formatted, r.val))
             ELSE IF SlotCaught(r.exc)
             THEN SlotLoop(Tail(slots), target_tz_obj, available_slots_formatted)
             ELSE r

\* The end of a pass that stores the list whether or not it is empty.
StoreEntryAlways(transformed_availability, duration_label, available_slots_formatted) ==
    DictSet(transformed_availability, duration_label, available_slots_formatted)

\* The end of one pass of the outer loop: a non-empty list is stored under
\* its label.
StoreEntry(transformed_availability, duration_label, available_slots_formatted) ==
    IF available_slots_formatted # <<>>
    THEN DictSet(transformed_availability, duration_label, available_slots_formatted)
    ELSE transformed_availability

\* The outer loop over the items of linkAvailabilityByDuration.
RECURSIVE DurationLoop(_, _, _)
DurationLoop(items, target_tz_obj, transformed_availability) ==
    IF items = <<>> THEN Return(PyDict(transformed_availability))
    ELSE LET duration_label == convert_duration_ms_to_label(PyStr(Head(items)[1])).val
             details == Head(items)[2]
         IN  IF ~IsDict(details)
             THEN DurationLoop(Tail(items), target_tz_obj, transformed_availability)
             ELSE LET it == PyIter(DictGet(details, "availabilities", PyList(<<>>)))
                      r == IF it.kind = "raise" THEN it
                           ELSE SlotLoop(it.val, target_tz_obj, <<>>)
                  IN  IF r.kind = "raise" THEN r
                      ELSE DurationLoop(Tail(items), target_tz_obj,
                               StoreEntry(transformed_availability, duration_label, r.val))

\* The check of the path's last level, before the timezone is looked at.
PathIsMapping(availability_by_duration) == IsDict(availability_by_duration)

\* A lookup that lets pytz's own error through.
ResolveTimezoneUnmapped(target_timezone) == PytzTimezone(target_timezone)

\* The timezone lookup: UnknownTimeZoneError becomes ValueError.
ResolveTimezone(target_timezone) ==
    LET z == PytzTimezone(target_timezone)
    IN  IF z.kind = "raise" THEN Raise("ValueError") ELSE z

process_hubspot_availability(hubspot_response_json, target_timezone) ==
    LET link_availability_data == PyGet(hubspot_response_json, "linkAvailability", PyDict(<<>>))
    IN  IF link_availability_data.kind = "raise" THEN link_availability_data
        ELSE LET availability_by_duration ==
                     PyGet(link_availability_data.val, "linkAvailabilityByDuration", PyDict(<<>>))
             IN  IF availability_by_duration.kind = "raise" THEN availability_by_duration
                 ELSE IF ~PathIsMapping(availability_by_duration.val) THEN Return(PyDict(<<>>))
                 ELSE LET target_tz_obj == ResolveTimezone(target_timezone)
                      IN  IF target_tz_obj.kind = "raise" THEN target_tz_obj
                          ELSE DurationLoop(availability_by_duration.val.v, target_tz_obj.val, <<>>)

(***************************************************************************)
(* The documents the transformer is applied to.                             *)
(***************************************************************************)
MaxItems == 2

MaxDurations == 2

Slot(n) == PyDict(<< <<"startMillisUtc", n>> >>)

\* The items found below a duration entry.  1, 2: well-formed slots; 3: a
\* slot that is no mapping; 4: one without the field; 5: one whose field is
\* a string; 6: 10^15 ms (year 33658); 7: 10^30 ms.  8, 9, 10 stand in the
\* place of the slot list: an entry value that is no mapping, one without
\* the list, one whose list is null.
ItemValues ==
    << Slot(PyNum(1748343000, 0, 0)),
       Slot(PyNum(1762050600, 0, 0)),
       PyNone,
       PyDict(<<>>),
       Slot(PyStr(<<"1">>)),
       Slot(PyNum(1, 0, 12)),
       Slot(PyNum(1, 0, 27)),
       PyNone,
       PyDict(<<>>),
       PyDict(<< <<"availabilities", PyNone>> >>) >>

NumSlotValues == 7

\* Two keys of the same minute and a key that is no number.
DurationKeys == {<<"6", "0", "0", "0", "0">>, <<"6", "0", "0", "0", "6">>, <<"a">>}

RECURSIVE SumTo(_, _)
SumTo(ms, i) == IF i = 0 THEN 0 ELSE SumTo(ms, i - 1) + ms[i]

\* A mapping is described by its keys ks in order, the number ms[i] of items
\* below entry i, and the items of all entries in one row.  Keys are
\* distinct, there are at most MaxItems items, and a value that stands in the
\* place of a slot list is the only item of its entry.
DistinctKeys(ks) == \A i, j \in 1..Len(ks) : ks[i] = ks[j] => i = j

OddItemsAlone(ms, items) ==
    \A i \in 1..Len(ms) : \A j \in 1..ms[i] :
        items[SumTo(ms, i - 1) + j] > NumSlotValues => ms[i] = 1

DetailsOf(ms, items, i) ==
    LET first == SumTo(ms, i - 1) + 1
    IN  IF ms[i] = 1 /\ items[first] > NumSlotValues THEN ItemValues[items[first]]
        ELSE PyDict(<< <<"availabilities",
                         PyList([j \in 1..ms[i] |-> ItemValues[items[first + j - 1]]])>> >>)

DurationMap(ks, ms, items) == PyDict([i \in 1..Len(ks) |-> <<ks[i], DetailsOf(ms, items, i)>>])

WithPath(x) == PyDict(<< <<"linkAvailability", PyDict(<< <<"linkAvailabilityByDuration", x>> >>)>> >>)

\* Documents in which the path is absent or is no mapping, at either level.
BrokenDocuments ==
    {PyDict(<<>>),
     PyDict(<< <<"linkAvailability", PyNone>> >>),
     PyDict(<< <<"linkAvailability", PyList(<<>>)>> >>),
     PyDict(<< <<"linkAvailability", PyDict(<<>>)>> >>),
     WithPath(PyNone),
     WithPath(PyList(<<>>))}

\* P holds of some document: a broken one, or one whose path leads to a
\* mapping of at most MaxDurations entries and MaxItems items.
SomeDocument(P(_)) ==
    \/ \E d \in BrokenDocuments : P(d)
    \/ \E n \in 0..MaxDurations : \E ks \in [1..n -> DurationKeys] :
          /\ DistinctKeys(ks)
          /\ \E ms \in [1..n -> 0..MaxItems] :
                /\ SumTo(ms, n) <= MaxItems
                /\ \E items \in [1..SumTo(ms, n) -> 1..Len(ItemValues)] :
                      /\ OddItemsAlone(ms, items)
                      /\ P(WithPath(DurationMap(ks, ms, items)))

TimezoneNames == {"America/Mexico_City", "Europe/London", "Mars/Phobos"}

InitTransformOn(d) ==
    \E z \in TimezoneNames : args = [hubspot_response_json |-> d, target_timezone |-> z]

InitTransform ==
    /\ pc = "call"
    /\ op = "process_hubspot_availability"
    /\ SomeDocument(InitTransformOn)
    /\ ret = NoOutcome
    /\ env = PyNone
    /\ outbound = <<>>
    /\ reply = NoReply

CallTransform ==
    /\ pc = "call"
    /\ op = "process_hubspot_availability"
    /\ ret' = process_hubspot_availability(args.hubspot_response_json, args.target_timezone)
    /\ pc' = "done"
    /\ UNCHANGED <<op, args, env, outbound, reply>>

NextTransform == CallTransform

SpecTransform == InitTransform /\ [][NextTransform]_vars

(***************************************************************************)
(* String helpers of the booking endpoint: str.split(), str.replace(),      *)
(* datetime.strptime("%Y-%m-%d %H:%M"), tz.localize.                        *)
(***************************************************************************)
\* s.split(): the runs of non-whitespace characters of s.
RECURSIVE SplitWs(_, _, _)
SplitWs(s, cur, acc) ==
    IF s = <<>> THEN (IF cur = <<>> THEN acc ELSE Append(acc, cur))
    ELSE IF IsSpace(Head(s))
    THEN SplitWs(Tail(s), <<>>, IF cur = <<>> THEN acc ELSE Append(acc, cur))
    ELSE SplitWs(Tail(s), Append(cur, Head(s)), acc)

\* The fields of s between the occurrences of the character c.
RECURSIVE SplitOn(_, _, _, _)
SplitOn(s, c, cur, acc) ==
    IF s = <<>> THEN Append(acc, cur)
    ELSE IF Head(s) = c THEN SplitOn(Tail(s), c, <<>>, Append(acc, cur))
    ELSE SplitOn(Tail(s), c, Append(cur, Head(s)), acc)

StartsWith(s, pat) == Len(s) >= Len(pat) /\ SubSeq(s, 1, Len(pat)) = pat

\* s.replace(pat, ""): every occurrence of pat, from the left, is removed.
RECURSIVE RemoveAll(_, _)
RemoveAll(s, pat) ==
    IF s = <<>> THEN <<>>
    ELSE IF StartsWith(s, pat) THEN RemoveAll(SubSeq(s, Len(pat) + 1, Len(s)), pat)
    ELSE <<Head(s)>> \o RemoveAll(Tail(s), pat)

AllDigits(s) == \A i \in 1..Len(s) : IsDigit(s[i])

\* A strptime number field: lo to hi digits, its value.
IsField(s, lo, hi) == lo <= Len(s) /\ Len(s) <= hi /\ AllDigits(s)

IsLeap(y) == (y % 4 = 0 /\ y % 100 # 0) \/ y % 400 = 0

DaysInMonth(y, m) ==
    IF m = 2 THEN (IF IsLeap(y) THEN 29 ELSE 28)
    ELSE IF m \in {4, 6, 9, 11} THEN 30 ELSE 31

\* datetime.strptime(date_str + " " + time_str, "%Y-%m-%d %H:%M"): the naive
\* date-time, or ValueError.
Strptime(date_str, time_str) ==
    LET d == SplitOn(date_str, "-", <<>>, <<>>)
        t == SplitOn(time_str, ":", <<>>, <<>>)
    IN  IF /\ Len(d) = 3 /\ Len(t) = 2
           /\ IsField(d[1], 4, 4) /\ IsField(d[2], 1, 2) /\ IsField(d[3], 1, 2)
           /\ IsField(t[1], 1, 2) /\ IsField(t[2], 1, 2)
        THEN LET y == BodyVal(d[1], 0)
                 m == BodyVal(d[2], 0)
                 dd == BodyVal(d[3], 0)
                 h == BodyVal(t[1], 0)
                 mi == BodyVal(t[2], 0)
             IN  IF /\ y >= 1 /\ m \in 1..12 /\ dd >= 1 /\ dd <= DaysInMonth(y, m)
                    /\ h <= 23 /\ mi <= 59
                 THEN Return([year |-> y, month |-> m, day |-> dd, hour |-> h, minute |-> mi])
                 ELSE Raise("ValueError")
        ELSE Raise("ValueError")

\* The day number, counted from 1970-01-01, of a civil date.
DaysFromCivil(y0, m, d) ==
    LET y == IF m <= 2 THEN y0 - 1 ELSE y0
        era == y \div 400
        yoe == y - era * 400
        doy == (153 * (IF m > 2 THEN m - 3 ELSE m + 9) + 2) \div 5 + d - 1
        doe == yoe * 365 + yoe \div 4 - yoe \div 100 + doy
    IN  era * 146097 + doe - 719468

ZoneOffsets(zone) == IF zone = "Europe/London" THEN {0, 3600} ELSE {UtcOffset(zone, 0)}

\* tz.localize(dt) with is_dst=False: the offset given to a wall-clock second.
\* A wall time that occurs twice gets the standard offset; one that does not
\* occur gets the offset in force six hours before.
RECURSIVE LocalizeOffset(_, _)
LocalizeOffset(zone, wall) ==
    LET fits == {o \in ZoneOffsets(zone) : UtcOffset(zone, wall - o) = o}
    IN  IF fits = {} THEN LocalizeOffset(zone, wall - 21600)
        ELSE CHOOSE o \in fits : \A p \in fits : o <= p

\* A conversion that takes the wall-clock time for UTC.
StartSecondUnlocalized(zone, f) ==
    DaysFromCivil(f.year, f.month, f.day) * 86400 + f.hour * 3600 + f.minute * 60

\* int(utc_dt.timestamp() * 1000), in seconds: its last three digits are 000.
StartSecond(zone, f) ==
    LET wall == DaysFromCivil(f.year, f.month, f.day) * 86400 + f.hour * 3600 + f.minute * 60
    IN  wall - LocalizeOffset(zone, wall)

\* str(start_time_ms) of a whole second.
MillisStr(sec) == IF sec = 0 THEN <<"0">> ELSE IntStr(sec) \o <<"0", "0", "0">>

(***************************************************************************)
(* The two endpoints.  A request is received, validated by the framework    *)
(* against the declared parameters, and handled up to its outbound call;    *)
(* the upstream's reply then ends it.                                       *)
(***************************************************************************)
Http(status, body) == [kind |-> "http", status |-> status, body |-> body]

NoBody == PyNone

\* os.getenv("HUBSPOT_API_KEY"): unset, empty, set.
EnvValues == {PyNone, PyStr(<<>>), PyStr(<<"k">>)}

\* A check of the credential that takes the empty string for a key.
KeyMissingWhenUnset(key) == key.t = "none"

\* not HUBSPOT_API_KEY_from_env
KeyMissing(key) == key.t = "none" \/ key.v = <<>>

\* What the upstream does with one outbound call: an HTTP error status, a
\* body that is no JSON, a refused connection, a connection that times out
\* while it is set up, a read that times out, or (below) a JSON body.
UpstreamErrorStatuses == {400, 401, 403, 404, 409, 500, 503}

FailedReplies ==
    {[kind |-> "status", code |-> c] : c \in UpstreamErrorStatuses}
        \cup {[kind |-> k] : k \in {"not_json", "connection_error", "connect_timeout", "read_timeout"}}

JsonReply(body) == [kind |-> "json", body |-> body]

\* requests.get / requests.post, raise_for_status() and response.json() on a
\* reply: the decoded body, or the requests exception raised.
RequestsOutcome(r0) ==
    CASE r0.kind = "json" -> Return(r0.body)
      [] r0.kind = "status" -> Raise("HTTPError")
      [] r0.kind = "not_json" -> Raise("JSONDecodeError")
      [] r0.kind = "connection_error" -> Raise("ConnectionError")
      [] r0.kind = "connect_timeout" -> Raise("ConnectTimeout")
      [] r0.kind = "read_timeout" -> Raise("ReadTimeout")

\* The except clauses of fetch_hubspot_meeting_availability, in order:
\* HTTPError is re-raised, a requests ConnectionError (ConnectTimeout is one)
\* becomes the builtin ConnectionError, a Timeout the builtin TimeoutError,
\* a JSONDecodeError a ValueError.
fetch_hubspot_meeting_availability(r0) ==
    LET r == RequestsOutcome(r0)
    IN  IF r.kind = "return" THEN r
        ELSE CASE r.exc = "HTTPError" -> r
               [] r.exc \in {"ConnectionError", "ConnectTimeout"} -> Raise("builtins.ConnectionError")
               [] r.exc = "ReadTimeout" -> Raise("builtins.TimeoutError")
               [] r.exc = "JSONDecodeError" -> Raise("ValueError")

\* The status the availability endpoint gives an upstream HTTP error status.
AvailabilityStatusFor(status_code) ==
    IF status_code = 401 \/ status_code = 403 THEN 500
    ELSE IF status_code = 404 THEN 404
    ELSE 502

\* The try block of get_availability_endpoint after the outbound call, and
\* its except clauses in order.
AvailabilityAnswer(r0, timezone) ==
    LET hubspot_data == fetch_hubspot_meeting_availability(r0)
        r == IF hubspot_data.kind = "raise" THEN hubspot_data
             ELSE process_hubspot_availability(hubspot_data.val, timezone)
    IN  IF r.kind = "return" THEN Http(200, r.val)
        ELSE CASE r.exc = "HTTPError" -> Http(AvailabilityStatusFor(r0.code), NoBody)
               [] r.exc \in {"builtins.ConnectionError", "builtins.TimeoutError"} -> Http(503, NoBody)
               [] r.exc = "ValueError" -> Http(400, NoBody)
               [] OTHER -> Http(500, NoBody)

\* The query parameters as declared: slug is required and has at least one
\* character; timezone has a default.
DefaultTimezone == "America/Mexico_City"

QueryValid(q) == q.slug.t = "str" /\ Len(q.slug.v) >= 1

QueryTimezone(q) == IF q.timezone.t = "none" THEN DefaultTimezone ELSE q.timezone.v

\* Where the handler stands once it has run up to its outbound call: it has
\* answered, or it waits for the upstream.
Answered(r) == [pc |-> "done", ret |-> r, outbound |-> <<>>]

Awaiting(call) == [pc |-> "await", ret |-> NoOutcome, outbound |-> <<call>>]

\* get_availability_endpoint up to the outbound call.
AvailabilityEnter(q, key) ==
    IF ~QueryValid(q) THEN Answered(Http(422, NoBody))
    ELSE IF KeyMissing(key) THEN Answered(Http(500, NoBody))
    ELSE IF PytzTimezone(QueryTimezone(q)).kind = "raise" THEN Answered(Http(400, NoBody))
    ELSE Awaiting([method |-> "GET", slug |-> q.slug.v, timezone |-> QueryTimezone(q)])

\* The slot's try block of book_meeting_endpoint: start_time_ms in seconds,
\* or the error raised.
SlotTime(slot, timezone) ==
    LET slot_parts == SplitWs(slot, <<>>, <<>>)
    IN  IF Len(slot_parts) < 3 THEN Raise("ValueError")
        ELSE LET dt_obj == Strptime(slot_parts[2], slot_parts[3])
                 tz_obj == PytzTimezone(timezone)
             IN  IF dt_obj.kind = "raise" THEN dt_obj
                 ELSE IF tz_obj.kind = "raise" THEN tz_obj
                 ELSE Return(StartSecond(tz_obj.val, dt_obj.val))

\* The except clause of the slot's try block.
SlotCaughtByBook(exc) == exc \in {"ValueError", "IndexError"}

\* int(booking.duration.replace("min", "")) * 60 * 1000
DurationMs(duration) ==
    LET duration_value == PyInt(RemoveAll(duration, MinSuffix))
    IN  IF duration_value.kind = "raise" THEN duration_value
        ELSE Return(duration_value.val * 60 * 1000)

BodyValid(b) == \A f \in DOMAIN b : b[f].t = "str"

hubspot_payload(b, start_time, duration_ms) ==
    [email |-> b.email.v, lastName |-> b.firstName.v, firstName |-> b.lastName.v,
     timezone |-> b.timezone.v, startTime |-> MillisStr(start_time), slug |-> b.slug.v,
     duration |-> duration_ms,
     formFields |-> << [name |-> "country", value |-> b.country.v],
                       [name |-> "company", value |-> b.company.v] >>]

\* book_meeting_endpoint up to the outbound call.  An error the handler does
\* not catch is answered 500 by the framework.
BookEnter(b, key) ==
    IF ~BodyValid(b) THEN Answered(Http(422, NoBody))
    ELSE IF KeyMissing(key) THEN Answered(Http(500, NoBody))
    ELSE LET start_time == SlotTime(b.slot.v, b.timezone.v)
             duration_ms == DurationMs(b.duration.v)
         IN  IF start_time.kind = "raise"
             THEN Answered(Http(IF SlotCaughtByBook(start_time.exc) THEN 400 ELSE 500, NoBody))
             ELSE IF duration_ms.kind = "raise" THEN Answered(Http(400, NoBody))
             ELSE Awaiting([method |-> "POST",
                            payload |-> hubspot_payload(b, start_time.val, duration_ms.val)])

\* The status the booking endpoint gives an upstream HTTP error status.
BookStatusFor(status_code) ==
    IF status_code = 401 \/ status_code = 403 THEN 500 ELSE status_code

\* The try block of book_meeting_endpoint after the outbound call, and its
\* except clauses in order.
BookAnswer(r0) ==
    LET r == RequestsOutcome(r0)
    IN  IF r.kind = "return" THEN Http(200, r.val)
        ELSE CASE r.exc = "HTTPError" -> Http(BookStatusFor(r0.code), NoBody)
               [] r.exc \in {"ConnectionError", "ConnectTimeout"} -> Http(503, NoBody)
               [] r.exc = "ReadTimeout" -> Http(504, NoBody)
               [] OTHER -> Http(500, NoBody)

\* Where a handler stands after the upstream's reply: every path of both try
\* blocks returns or raises, so the request is over.
AfterReply == "done"

\* A handler that sends the call again after a read timeout.
CallsAfterReplyRetrying(calls, r0) ==
    IF r0.kind = "read_timeout" THEN calls \o calls ELSE calls

\* The outbound calls after the reply r0 is handled: no except clause and no
\* path after the call sends anything.
CallsAfterReply(calls, r0) == calls

(***************************************************************************)
(* Requests.                                                                *)
(***************************************************************************)
Slugs == {PyNone, PyStr(<<>>), PyStr(<<"s">>)}

QueryTimezones == {PyNone} \cup {PyStr(z) : z \in TimezoneNames}

BookSlots ==
    {<<"T", "u", "e", "s", "d", "a", "y", " ", "2", "0", "2", "5", "-", "0", "5", "-", "2", "7", " ", "1", "0", ":", "0", "0">>,
     <<"W", "e", "d", "n", "e", "s", "d", "a", "y", " ", "2", "0", "2", "5", "-", "0", "5", "-", "2", "7", " ", "1", "1", ":", "3", "0">>,
     <<"2", "0", "2", "5", "-", "0", "5", "-", "2", "7", " ", "1", "0", ":", "0", "0">>,
     <<"T", "u", "e", "s", "d", "a", "y", " ", "2", "0", "2", "5", "-", "0", "5", "-", "2", "7", " ", "2", "5", ":", "0", "0">>,
     <<"T", "u", "e", "s", "d", "a", "y", " ", "2", "0", "2", "5", "-", "0", "5", "-", "2", "7">>}

BookDurations ==
    {<<"3", "0", "m", "i", "n">>,
     <<"m", "i", "n", "3", "0">>,
     <<"-", "5", "m", "i", "n">>,
     <<"a", "b", "c">>,
     <<>>}

Contact ==
    [firstName |-> PyStr("Robert"), lastName |-> PyStr("Todea"), email |-> PyStr("r@example.com"),
     country |-> PyStr("Mexico"), company |-> PyStr("Mobile Insight")]

Booking(slug, duration, timezone, slot) ==
    [slug |-> slug, duration |-> duration, timezone |-> timezone, slot |-> slot,
     firstName |-> Contact.firstName, lastName |-> Contact.lastName, email |-> Contact.email,
     country |-> Contact.country, company |-> Contact.company]

\* Complete bodies, and one that lacks the slot.
Bookings ==
    {Booking(PyStr(<<"s">>), PyStr(d), PyStr(z), PyStr(sl)) :
        d \in BookDurations, z \in TimezoneNames, sl \in BookSlots}
        \cup {Booking(PyStr(<<"s">>), PyStr(<<"3", "0", "m", "i", "n">>), PyStr(DefaultTimezone), PyNone)}

\* The booking confirmation of the upstream.
Confirmation == PyDict(<< <<"id", PyStr(<<"1">>)>> >>)

InitServer ==
    /\ pc = "idle"
    /\ op = "none"
    /\ args = PyNone
    /\ ret = NoOutcome
    /\ env \in EnvValues
    /\ outbound = <<>>
    /\ reply = NoReply

Idle == pc = "idle" /\ op = "none"

\* GET /availability arrives and is handled up to its outbound call.
GetAvailabilityCall ==
    /\ Idle
    /\ \E slug \in Slugs, timezone \in QueryTimezones :
          LET q == [slug |-> slug, timezone |-> timezone]
              h == AvailabilityEnter(q, env)
          IN  /\ op' = "get_availability_endpoint"
              /\ args' = q
              /\ pc' = h.pc
              /\ ret' = h.ret
              /\ outbound' = h.outbound
    /\ UNCHANGED <<env, reply>>

GetAvailabilityReplyWith(r) ==
    /\ reply' = r
    /\ ret' = AvailabilityAnswer(r, QueryTimezone(args))
    /\ pc' = AfterReply
    /\ outbound' = CallsAfterReply(outbound, r)
    /\ UNCHANGED <<op, args, env>>

GetAvailabilityReplyJson(d) == GetAvailabilityReplyWith(JsonReply(d))

\* The upstream answers the availability call and the handler finishes.
GetAvailabilityReply ==
    /\ pc = "await"
    /\ op = "get_availability_endpoint"
    /\ \/ \E r \in FailedReplies : GetAvailabilityReplyWith(r)
       \/ SomeDocument(GetAvailabilityReplyJson)

\* POST /book arrives and is handled up to its outbound call.
BookMeetingCall ==
    /\ Idle
    /\ \E b \in Bookings :
          LET h == BookEnter(b, env)
          IN  /\ op' = "book_meeting_endpoint"
              /\ args' = b
              /\ pc' = h.pc
              /\ ret' = h.ret
              /\ outbound' = h.outbound
    /\ UNCHANGED <<env, reply>>

\* The upstream answers the booking call and the handler finishes.
BookMeetingReply ==
    /\ pc = "await"
    /\ op = "book_meeting_endpoint"
    /\ \E r \in FailedReplies \cup {JsonReply(Confirmation)} :
          /\ reply' = r
          /\ ret' = BookAnswer(r)
          /\ pc' = AfterReply
          /\ outbound' = CallsAfterReply(outbound, r)
    /\ UNCHANGED <<op, args, env>>

\* The answer is sent; nothing of the request is kept.
Respond ==
    /\ pc = "done"
    /\ op \in {"get_availability_endpoint", "book_meeting_endpoint"}
    /\ pc' = "idle"
    /\ op' = "none"
    /\ args' = PyNone
    /\ ret' = NoOutcome
    /\ outbound' = <<>>
    /\ reply' = NoReply
    /\ UNCHANGED env

NextServer ==
    GetAvailabilityCall \/ GetAvailabilityReply \/ BookMeetingCall \/ BookMeetingReply \/ Respond

SpecServer == InitServer /\ [][NextServer]_vars

(***************************************************************************)
(* The two endpoints in turn: the slot string the transformer emits for an  *)
(* instant is sent back to POST /book with the same timezone.               *)
(***************************************************************************)
HalfHours == 4

\* An afternoon in May, the two hours before the clocks of Europe/London go
\* back, and the hour before they go forward.
RoundTripBases == {1748343000, BstEnd2025 - 7200, BstStart2025 - 3600}

\* Instants in milliseconds: on the half hour, 30 s and 30.5 s past it.
RoundTripInstants ==
    {PyNum(b + 1800 * k + s, ms, 0) :
        b \in RoundTripBases, k \in 0..HalfHours, s \in {0, 30}, ms \in {0, 500}}

RoundTripKey == <<"1", "8", "0", "0", "0", "0", "0">>

\* The upstream document that offers the one slot start_millis.
RoundTripDocument(start_millis) ==
    WithPath(PyDict(<< <<RoundTripKey,
                         PyDict(<< <<"availabilities", PyList(<<Slot(start_millis)>>)>> >>)>> >>))

InitRoundTrip ==
    /\ pc = "call"
    /\ op = "round_trip"
    /\ \E t \in RoundTripInstants, z \in KnownTimezones :
          args = [start_millis |-> t, timezone |-> z, booking |-> PyNone]
    /\ ret = NoOutcome
    /\ env = PyStr(<<"k">>)
    /\ outbound = <<>>
    /\ reply = NoReply

\* The transformer emits the slot of the document.
EmitSlot ==
    /\ pc = "call"
    /\ op = "round_trip"
    /\ ret' = process_hubspot_availability(RoundTripDocument(args.start_millis), args.timezone)
    /\ pc' = "emitted"
    /\ UNCHANGED <<op, args, env, outbound, reply>>

\* The emitted label and slot string are posted to /book, which is handled
\* up to its outbound call.
BookEmittedSlot ==
    /\ pc = "emitted"
    /\ op = "round_trip"
    /\ ret.kind = "return"
    /\ ret.val.v # <<>>
    /\ LET b == Booking(PyStr(<<"s">>), PyStr(ret.val.v[1][1]), PyStr(args.timezone),
                        PyStr(ret.val.v[1][2][1]))
           h == BookEnter(b, env)
       IN  /\ args' = [args EXCEPT !.booking = b]
           /\ pc' = h.pc
           /\ ret' = h.ret
           /\ outbound' = h.outbound
    /\ UNCHANGED <<op, env, reply>>

NextRoundTrip == EmitSlot \/ BookEmittedSlot

SpecRoundTrip == InitRoundTrip /\ [][NextRoundTrip]_vars

(***************************************************************************)
(* Every operation of the module.                                           *)
(***************************************************************************)
Init == InitLabel \/ InitTransform \/ InitServer

Next == NextLabel \/ NextTransform \/ NextServer

Spec == Init /\ [][Next]_vars

(***************************************************************************)
(* What the claims speak of, stated without the code's control flow.        *)
(***************************************************************************)
TransformDone == pc = "done" /\ op = "process_hubspot_availability"

Resolvable(timezone) == timezone \in KnownTimezones

\* The value at linkAvailability.linkAvailabilityByDuration, None when a
\* level is absent or is no mapping.
PathValue(doc) ==
    IF IsDict(doc) /\ HasKey(doc, "linkAvailability")
         /\ IsDict(DictGet(doc, "linkAvailability", PyNone))
         /\ HasKey(DictGet(doc, "linkAvailability", PyNone), "linkAvailabilityByDuration")
    THEN DictGet(DictGet(doc, "linkAvailability", PyNone), "linkAvailabilityByDuration", PyNone)
    ELSE PyNone

PathLeadsToMapping(doc) == IsDict(PathValue(doc))

\* The duration entries of a document whose path leads to a mapping.
Entries(doc) == PathValue(doc).v

\* The slots listed below a duration entry: none unless the entry is a
\* mapping that holds a list.
ListedSlots(details) ==
    IF IsDict(details) /\ DictGet(details, "availabilities", PyNone).t = "list"
    THEN DictGet(details, "availabilities", PyNone).v
    ELSE <<>>

\* A well-formed slot: a mapping whose startMillisUtc is a number that is an
\* instant of the years 1 to 9999.
WellFormed(slot) ==
    /\ IsDict(slot)
    /\ HasKey(slot, "startMillisUtc")
    /\ DictGet(slot, "startMillisUtc", PyNone).t = "num"
    /\ DictGet(slot, "startMillisUtc", PyNone).e < YearRangeExp

Formatted(slot, timezone) ==
    Strftime(LocalFields(timezone, DictGet(slot, "startMillisUtc", PyNone).sec))

\* The formatted well-formed slots of a list, in its order.
RECURSIVE FormattedWellFormed(_, _)
FormattedWellFormed(slots, timezone) ==
    IF slots = <<>> THEN <<>>
    ELSE (IF WellFormed(Head(slots)) THEN <<Formatted(Head(slots), timezone)>> ELSE <<>>)
             \o FormattedWellFormed(Tail(slots), timezone)

LabelOf(key) == convert_duration_ms_to_label(PyStr(key)).val

\* The formatted well-formed slots of all entries labelled L, in order.
RECURSIVE ExpectedUnder(_, _, _)
ExpectedUnder(entries, timezone, L) ==
    IF entries = <<>> THEN <<>>
    ELSE (IF LabelOf(Head(entries)[1]) = L
          THEN FormattedWellFormed(ListedSlots(Head(entries)[2]), timezone)
          ELSE <<>>)
             \o ExpectedUnder(Tail(entries), timezone, L)

\* The list a returned mapping holds under L, empty when L is no key.
ListUnder(result, L) == DictGet(result, L, <<>>)

Occurs(x, seq) == \E i \in 1..Len(seq) : seq[i] = x

(***************************************************************************)
(* C1: for a resolvable timezone and a document whose path leads to a       *)
(* mapping, process_hubspot_availability returns and never raises, and      *)
(* every well-formed slot of every duration entry is in the list returned   *)
(* under that entry's label, whatever else stands beside it.                *)
(***************************************************************************)
C1_BadSlotsAreDroppedAlone ==
    (/\ TransformDone
     /\ Resolvable(args.target_timezone)
     /\ PathLeadsToMapping(args.hubspot_response_json))
    => /\ ret.kind = "return"
       /\ \A i \in 1..Len(Entries(args.hubspot_response_json)) :
             LET e == Entries(args.hubspot_response_json)[i]
                 kept == FormattedWellFormed(ListedSlots(e[2]), args.target_timezone)
             IN  \A j \in 1..Len(kept) : Occurs(kept[j], ListUnder(ret.val, LabelOf(e[1])))

(***************************************************************************)
(* C2: for a document in which linkAvailability.linkAvailabilityByDuration  *)
(* is absent or is no mapping, at either level, and for every timezone,     *)
(* process_hubspot_availability returns the empty mapping.                  *)
(***************************************************************************)
C2_BrokenPathGivesEmptyMapping ==
    (TransformDone /\ ~PathLeadsToMapping(args.hubspot_response_json))
    => ret = Return(PyDict(<<>>))

(***************************************************************************)
(* C4: every value of a returned mapping is a non-empty list, every key is  *)
(* the label of a duration entry of which a slot survives, and so the       *)
(* mapping is empty when no slot survives.                                  *)
(***************************************************************************)
C4_NoEmptyLists ==
    (TransformDone /\ ret.kind = "return")
    => \A i \in 1..Len(ret.val.v) :
          /\ ret.val.v[i][2] # <<>>
          /\ PathLeadsToMapping(args.hubspot_response_json)
          /\ \E j \in 1..Len(Entries(args.hubspot_response_json)) :
                LET e == Entries(args.hubspot_response_json)[j]
                IN  /\ LabelOf(e[1]) = ret.val.v[i][1]
                    /\ FormattedWellFormed(ListedSlots(e[2]), args.target_timezone) # <<>>

\* A returned mapping with a key, from a document that also holds an entry
\* with slots of which none survives.
C4_Witness ==
    /\ TransformDone
    /\ ret.kind = "return"
    /\ ret.val.v # <<>>
    /\ \E j \in 1..Len(Entries(args.hubspot_response_json)) :
          LET e == Entries(args.hubspot_response_json)[j]
          IN  /\ ListedSlots(e[2]) # <<>>
              /\ FormattedWellFormed(ListedSlots(e[2]), args.target_timezone) = <<>>

(***************************************************************************)
(* C10: for a resolvable timezone, the list returned under a label L is     *)
(* exactly the formatted well-formed slots of all duration entries whose    *)
(* key is labelled L, in upstream order.                                    *)
(***************************************************************************)
C10_ListsAreComplete ==
    (/\ TransformDone
     /\ ret.kind = "return"
     /\ Resolvable(args.target_timezone)
     /\ PathLeadsToMapping(args.hubspot_response_json))
    => \A k \in DurationKeys :
          ListUnder(ret.val, LabelOf(k))
              = ExpectedUnder(Entries(args.hubspot_response_json), args.target_timezone, LabelOf(k))

(***************************************************************************)
(* C5: for every string raw, convert_duration_ms_to_label(raw) is the       *)
(* invalid-format sentinel when raw is not integer-parseable, the           *)
(* unknown-duration sentinel when the integer is negative, and otherwise    *)
(* floor(N / 60000) followed by "min"; the two sentinels differ.            *)
(***************************************************************************)
ReferenceLabel(raw) ==
    IF PyInt(raw).kind = "raise" THEN InvalidDurationFormat
    ELSE IF PyInt(raw).val < 0 THEN UnknownDuration
    ELSE NatStr(PyInt(raw).val \div 60000) \o <<"m", "i", "n">>

C5_LabelIsReferenceLabel ==
    (/\ pc = "done"
     /\ op = "convert_duration_ms_to_label"
     /\ args.duration_ms_str.t = "str")
    => /\ ret = Return(ReferenceLabel(args.duration_ms_str.v))
       /\ UnknownDuration # InvalidDurationFormat

(***************************************************************************)
(* C3: a call of process_hubspot_availability with a timezone string that   *)
(* does not resolve, on a document whose path leads to a mapping, ends with *)
(* ValueError and returns no mapping; GET /availability with the credential *)
(* configured and a slug given answers an unresolvable timezone with 400    *)
(* and calls nothing upstream.                                              *)
(***************************************************************************)
CredentialAbsent == env.t = "none" \/ env.v = <<>>

GetDone == pc = "done" /\ op = "get_availability_endpoint"

BookDone == pc = "done" /\ op = "book_meeting_endpoint"

SlugGiven(q) == q.slug.t = "str" /\ q.slug.v # <<>>

UnresolvableQuery(q) == q.timezone.t = "str" /\ ~Resolvable(q.timezone.v)

C3_UnresolvableTimezoneIsRefused ==
    /\ (/\ TransformDone
        /\ ~Resolvable(args.target_timezone)
        /\ PathLeadsToMapping(args.hubspot_response_json))
       => ret = Raise("ValueError")
    /\ (GetDone /\ ~CredentialAbsent /\ SlugGiven(args) /\ UnresolvableQuery(args))
       => (ret.status = 400 /\ outbound = <<>>)

\* The transformer refuses an unresolvable timezone on a document with a
\* well-formed slot.
C3_Witness ==
    /\ TransformDone
    /\ ~Resolvable(args.target_timezone)
    /\ PathLeadsToMapping(args.hubspot_response_json)
    /\ \E i \in 1..Len(Entries(args.hubspot_response_json)) :
          FormattedWellFormed(ListedSlots(Entries(args.hubspot_response_json)[i][2]), "UTC") # <<>>
    /\ ret = Raise("ValueError")

\* C3 as first stated: for every document, and for every GET /availability.
C3_AsStated ==
    /\ (TransformDone /\ ~Resolvable(args.target_timezone)) => ret = Raise("ValueError")
    /\ (GetDone /\ UnresolvableQuery(args)) => ret.status = 400

(***************************************************************************)
(* C6: on both endpoints an upstream HTTP error status s is answered with   *)
(* 500 when s is 401 or 403, with 404 when s is 404, and with 502 for every *)
(* other s.                                                                 *)
(***************************************************************************)
ClaimedStatus(s) == IF s \in {401, 403} THEN 500 ELSE IF s = 404 THEN 404 ELSE 502

C6_UpstreamStatusIsRemapped ==
    ((GetDone \/ BookDone) /\ reply.kind = "status")
    => ret.status = ClaimedStatus(reply.code)

(***************************************************************************)
(* C7: POST /book with the credential configured answers 400 and sends no   *)
(* booking upstream when the timezone is unresolvable, the slot is not of   *)
(* the form "{Weekday} {YYYY-MM-DD} {HH:MM}", or the duration is not of the *)
(* form "{N}min" with a non-negative integer N.                             *)
(***************************************************************************)
BodyComplete(b) == \A f \in DOMAIN b : b[f].t = "str"

Shape(s) == [i \in 1..Len(s) |-> IF IsDigit(s[i]) THEN "d" ELSE s[i]]

DateTimeShape ==
    <<"d", "d", "d", "d", "-", "d", "d", "-", "d", "d", " ", "d", "d", ":", "d", "d">>

SlotForm(slot) ==
    \E i \in 1..Len(WeekdayNames) :
        LET w == WeekdayNames[i] \o <<" ">>
        IN  /\ StartsWith(slot, w)
            /\ Shape(SubSeq(slot, Len(w) + 1, Len(slot))) = DateTimeShape
            /\ Strptime(SubSeq(slot, Len(w) + 1, Len(w) + 10),
                        SubSeq(slot, Len(w) + 12, Len(slot))).kind = "return"

DurationForm(duration) ==
    /\ Len(duration) > 3
    /\ SubSeq(duration, Len(duration) - 2, Len(duration)) = <<"m", "i", "n">>
    /\ AllDigits(SubSeq(duration, 1, Len(duration) - 3))

C7_BadBookingIsRefused ==
    (/\ BookDone
     /\ ~CredentialAbsent
     /\ BodyComplete(args)
     /\ \/ ~Resolvable(args.timezone.v)
        \/ ~SlotForm(args.slot.v)
        \/ ~DurationForm(args.duration.v))
    => (ret.status = 400 /\ outbound = <<>>)

(***************************************************************************)
(* C8: with the credential unset or empty, a request that passes the        *)
(* declared parameter validation ends with 500 whatever its timezone, slot  *)
(* and duration, one that fails it ends with 422, and in neither case is    *)
(* anything sent upstream.                                                  *)
(***************************************************************************)
PassesValidation ==
    IF op = "get_availability_endpoint" THEN SlugGiven(args) ELSE BodyComplete(args)

C8_MissingCredentialIsServerError ==
    (CredentialAbsent /\ op \in {"get_availability_endpoint", "book_meeting_endpoint"})
    => /\ pc = "done"
       /\ outbound = <<>>
       /\ reply = NoReply
       /\ ret.status = (IF PassesValidation THEN 500 ELSE 422)

\* A booking with an unresolvable timezone and a malformed duration, with
\* the credential empty, is answered 500.
C8_Witness ==
    /\ BookDone
    /\ env = PyStr(<<>>)
    /\ BodyComplete(args)
    /\ ~Resolvable(args.timezone.v)
    /\ ~DurationForm(args.duration.v)
    /\ ret.status = 500

\* C8 as first stated: every request, valid or not.
C8_AsStated ==
    (CredentialAbsent /\ (GetDone \/ BookDone)) => (ret.status = 500 /\ outbound = <<>>)

(***************************************************************************)
(* C9: a request makes at most one outbound call; once the upstream has     *)
(* replied the request is over, the call is not repeated, and a failed      *)
(* call is answered with an error status.                                   *)
(***************************************************************************)
C9_AtMostOneOutboundCall ==
    /\ Len(outbound) <= 1
    /\ reply # NoReply
       => /\ pc = "done"
          /\ Len(outbound) = 1
          /\ reply.kind # "json" => ret.status >= 400

\* A booking whose outbound call timed out while reading.
C9_Witness ==
    /\ BookDone
    /\ reply.kind = "read_timeout"
    /\ Len(outbound) = 1
    /\ ret.status = 504

(***************************************************************************)
(* C11: the slot string emitted for a UTC instant t in a resolvable         *)
(* timezone, sent back to POST /book with the same timezone, is parsed to   *)
(* startTime = t rounded down to the whole minute; for an instant of the    *)
(* first pass of the hour that Europe/London repeats when its clocks go     *)
(* back, to one hour after that minute.                                     *)
(***************************************************************************)
RoundTripBooked == pc = "await" /\ op = "round_trip"

InFirstPass(timezone, sec) ==
    timezone = "Europe/London" /\ BstEnd2025 - 3600 <= sec /\ sec < BstEnd2025

ExpectedStart(timezone, sec) ==
    (sec - (sec % 60)) + (IF InFirstPass(timezone, sec) THEN 3600 ELSE 0)

SentStartTime == outbound[1].payload.startTime

C11_RoundTripToTheMinute ==
    /\ (op = "round_trip" /\ pc = "emitted") => (ret.kind = "return" /\ ret.val.v # <<>>)
    /\ (op = "round_trip" /\ pc \notin {"call", "emitted"}) => pc = "await"
    /\ RoundTripBooked
       => /\ Len(outbound) = 1
          /\ SentStartTime
                = NatStr(ExpectedStart(args.timezone, args.start_millis.sec)) \o <<"0", "0", "0">>

\* A slot of the first pass of the repeated hour, 30.5 s past a half hour,
\* is booked one hour after its minute.
C11_Witness ==
    /\ RoundTripBooked
    /\ InFirstPass(args.timezone, args.start_millis.sec)
    /\ args.start_millis.sec % 60 = 30
    /\ args.start_millis.ms = 500
    /\ SentStartTime = NatStr(args.start_millis.sec - 30 + 3600) \o <<"0", "0", "0">>

Pad3(n) == IF n < 100 THEN <<"0">> \o Pad2(n) ELSE NatStr(n)

\* C11 as first stated: startTime is t itself.
C11_AsStated ==
    RoundTripBooked
    => SentStartTime = NatStr(args.start_millis.sec) \o Pad3(args.start_millis.ms)

====
